---- MODULE Spec2Model ----
(***************************************************************************)
(* A model of lingo's front end: the byte-to-token Lexer (src/lexer.rs),   *)
(* the token model (src/token.rs), the AST and its format() (src/ast.rs)   *)
(* and the Pratt Parser (src/parser.rs).                                   *)
(*                                                                         *)
(* Bytes are the integers 0..255, a source string is a sequence of bytes   *)
(* and a literal is the sequence of bytes of the lexeme.  Rust indexes     *)
(* from 0 and TLA+ from 1: byte i of the source is input[i + 1].           *)
(***************************************************************************)
EXTENDS Integers, Sequences, FiniteSets, TLC

VARIABLES
    lexer,        \* Lexer {input, position, read_position, ch}
    cur_token,    \* Parser.cur_token
    peek_token,   \* Parser.peek_token
    errors,       \* Parser.errors
    statements,   \* parse_program's `statements` vector
    pc,           \* where the driver of the lexer / the parser stands
    stack,        \* the active parse_expression calls, innermost last
    pending,      \* the statement parse_let_statement / parse_return_statement is building
    tokens,       \* every token the lexer has returned so far, in order
    advances,     \* how many times Parser::next_token has run
    first,        \* the Program of the first parse, kept by the round trip
    out           \* the String Program::format has returned to its caller

vars == <<lexer, cur_token, peek_token, errors, statements, pc, stack,
          pending, tokens, advances, first, out>>

-----------------------------------------------------------------------------
(* Bounds of the model *)

\* the longest raw source, in characters, the lexer specification enumerates
MaxLen == 3
\* the longest source, in lexemes, the parser specification enumerates
MaxLexemes == 3
\* how many calls past the end of the source the drivers may make
MaxOverrun == 4
\* the longest Program, in statements, the formatting specification enumerates
MaxProgram == 2
\* the longest source, in let / return statements, the parser specification enumerates
MaxStatements == 2

-----------------------------------------------------------------------------
(* Bytes (src/lexer.rs) *)

ChNul == 0
ChTab == 9
ChLf == 10
ChCr == 13
ChSpace == 32
ChBang == 33
ChDQuote == 34
ChSQuote == 39
ChLParen == 40
ChRParen == 41
ChAsterisk == 42
ChPlus == 43
ChComma == 44
ChMinus == 45
ChSlash == 47
ChZero == 48
ChNine == 57
ChSemicolon == 59
ChLt == 60
ChAssign == 61
ChGt == 62
ChUpperA == 65
ChUpperZ == 90
ChBackslash == 92
ChUnderscore == 95
ChLowerA == 97
ChLowerN == 110
ChLowerR == 114
ChLowerT == 116
ChLowerX == 120
ChLowerZ == 122
ChLBrace == 123
ChRBrace == 125
ChTilde == 126

\* the byte of a character written as a one-character string
Code(c) ==
    CASE c = " " -> 32
      [] c = "!" -> 33
      [] c = "(" -> 40
      [] c = ")" -> 41
      [] c = "*" -> 42
      [] c = "+" -> 43
      [] c = "," -> 44
      [] c = "-" -> 45
      [] c = "/" -> 47
      [] c = "0" -> 48
      [] c = "1" -> 49
      [] c = "2" -> 50
      [] c = "3" -> 51
      [] c = "4" -> 52
      [] c = "5" -> 53
      [] c = "6" -> 54
      [] c = "7" -> 55
      [] c = "8" -> 56
      [] c = "9" -> 57
      [] c = ";" -> 59
      [] c = "<" -> 60
      [] c = "=" -> 61
      [] c = ">" -> 62
      [] c = "L" -> 76
      [] c = "V" -> 86
      [] c = "_" -> 95
      [] c = "a" -> 97
      [] c = "b" -> 98
      [] c = "c" -> 99
      [] c = "d" -> 100
      [] c = "e" -> 101
      [] c = "f" -> 102
      [] c = "h" -> 104
      [] c = "i" -> 105
      [] c = "l" -> 108
      [] c = "m" -> 109
      [] c = "n" -> 110
      [] c = "o" -> 111
      [] c = "r" -> 114
      [] c = "s" -> 115
      [] c = "t" -> 116
      [] c = "u" -> 117
      [] c = "v" -> 118
      [] c = "x" -> 120
      [] c = "y" -> 121
      [] c = "{" -> 123
      [] c = "}" -> 125

\* the source string with the given characters
Str(cs) == [i \in 1..Len(cs) |-> Code(cs[i])]

-----------------------------------------------------------------------------
(* Token model (src/token.rs) *)

ILLEGAL == "ILLEGAL"
EOF == "EOF"
IDENT == "IDENT"
INT == "INT"
ASSIGN == "="
PLUS == "+"
MINUS == "-"
BANG == "!"
ASTERISK == "*"
SLASH == "/"
LT == "<"
GT == ">"
EQ == "=="
NOT_EQ == "!="
COMMA == ","
SEMICOLON == ";"
LPAREN == "("
RPAREN == ")"
LBRACE == "{"
RBRACE == "}"
FUNCTION == "FUNCTION"
LET_ == "LET"
TRUE_ == "TRUE"
FALSE_ == "FALSE"
IF_ == "IF"
ELSE_ == "ELSE"
RETURN == "RETURN"

Token(token_type, literal) == [token_type |-> token_type, literal |-> literal]

\* the token the parser's fields hold before Parser::new has run
NoToken == Token("", <<>>)

HexDigit(n) == IF n < 10 THEN ChZero + n ELSE ChLowerA + (n - 10)

\* std::ascii::escape_default, which Token::new applies to the byte
escape_default(ch) ==
    CASE ch = ChTab -> <<ChBackslash, ChLowerT>>
      [] ch = ChCr -> <<ChBackslash, ChLowerR>>
      [] ch = ChLf -> <<ChBackslash, ChLowerN>>
      [] ch = ChSQuote -> <<ChBackslash, ChSQuote>>
      [] ch = ChDQuote -> <<ChBackslash, ChDQuote>>
      [] ch = ChBackslash -> <<ChBackslash, ChBackslash>>
      [] ch >= ChSpace /\ ch <= ChTilde -> <<ch>>
      [] OTHER -> <<ChBackslash, ChLowerX, HexDigit(ch \div 16), HexDigit(ch % 16)>>

\* Token::new(token_type, ch)
Token_new(token_type, ch) == Token(token_type, escape_default(ch))

\* the keyword table behind lookup_ident, each keyword as its bytes: fn, let,
\* true, false, if, else, return
Keywords ==
    { <<<<102, 110>>, FUNCTION>>,
      <<<<108, 101, 116>>, LET_>>,
      <<<<116, 114, 117, 101>>, TRUE_>>,
      <<<<102, 97, 108, 115, 101>>, FALSE_>>,
      <<<<105, 102>>, IF_>>,
      <<<<101, 108, 115, 101>>, ELSE_>>,
      <<<<114, 101, 116, 117, 114, 110>>, RETURN>> }

lookup_ident(literal) ==
    IF \E k \in Keywords : k[1] = literal
    THEN (CHOOSE k \in Keywords : k[1] = literal)[2]
    ELSE IDENT

-----------------------------------------------------------------------------
(* Lexer (src/lexer.rs) *)

is_letter(ch) ==
    \/ (ChLowerA <= ch /\ ch <= ChLowerZ)
    \/ (ChUpperA <= ch /\ ch <= ChUpperZ)
    \/ ch = ChUnderscore

is_whitespace(ch) == ch = ChSpace \/ ch = ChTab \/ ch = ChLf \/ ch = ChCr

is_digit(ch) == ChZero <= ch /\ ch <= ChNine

\* str::is_char_boundary: the start, the end, or a byte that is no UTF-8
\* continuation byte (128..191)
is_char_boundary(input, i) ==
    \/ i = 0
    \/ i = Len(input)
    \/ (i < Len(input) /\ ~(input[i + 1] >= 128 /\ input[i + 1] <= 191))

\* whether &input[from..to] is a valid slice (Rust panics when it is not)
slice_ok(input, from, to) ==
    /\ from <= to
    /\ to <= Len(input)
    /\ is_char_boundary(input, from)
    /\ is_char_boundary(input, to)

\* &input[from..to]
slice(input, from, to) == SubSeq(input, from + 1, to)

read_char(l) ==
    [l EXCEPT !.ch = IF l.read_position >= Len(l.input)
                     THEN ChNul
                     ELSE l.input[l.read_position + 1],
              !.position = l.read_position,
              !.read_position = l.read_position + 1]

Lexer_new(input) ==
    read_char([input |-> input, position |-> 0, read_position |-> 0, ch |-> ChNul])

peek_char_ok(l) ==
    l.read_position >= Len(l.input)
        \/ slice_ok(l.input, l.read_position, l.read_position + 1)

\* a variant of peek_char that looks at the current byte, not at the next one
peek_char_Current(l) == l.ch

peek_char(l) ==
    IF l.read_position >= Len(l.input)
    THEN ChNul
    ELSE l.input[l.read_position + 1]

RECURSIVE skip_whitespace(_)
skip_whitespace(l) ==
    IF is_whitespace(l.ch) THEN skip_whitespace(read_char(l)) ELSE l

\* a variant of scan_letters that takes digits into the identifier as well
RECURSIVE scan_letters_AndDigits(_)
scan_letters_AndDigits(l) ==
    IF is_letter(l.ch) \/ is_digit(l.ch) THEN scan_letters_AndDigits(read_char(l)) ELSE l

\* the loop of read_identifier: the lexer once it stands on a non-letter
RECURSIVE scan_letters(_)
scan_letters(l) ==
    IF is_letter(l.ch) THEN scan_letters(read_char(l)) ELSE l

\* the loop of read_number: the lexer once it stands on a non-digit
RECURSIVE scan_digits(_)
scan_digits(l) ==
    IF is_digit(l.ch) THEN scan_digits(read_char(l)) ELSE l

\* a variant of read_identifier whose slice starts one byte late
read_identifier_FromReadPosition(l) ==
    LET after == scan_letters(l)
    IN  [lexer |-> after,
         literal |-> slice(l.input, l.read_position, after.position),
         ok |-> slice_ok(l.input, l.read_position, after.position)]

\* read_identifier: the lexer after the scan, the lexeme, and whether the slice is valid
read_identifier(l) ==
    LET after == scan_letters(l)
    IN  [lexer |-> after,
         literal |-> slice(l.input, l.position, after.position),
         ok |-> slice_ok(l.input, l.position, after.position)]

read_number(l) ==
    LET after == scan_digits(l)
    IN  [lexer |-> after,
         literal |-> slice(l.input, l.position, after.position),
         ok |-> slice_ok(l.input, l.position, after.position)]

\* the result of one call: the token, the lexer after it, and whether the call panicked
LexResult(token, l, panic) == [token |-> token, lexer |-> l, panic |-> panic]

\* the `=` and `!` arms: one byte of look-ahead decides between the one- and
\* the two-character operator; the token's byte is consumed by a final read_char
two_char_arm(l, two, one) ==
    IF ~peek_char_ok(l)
    THEN LexResult(NoToken, l, TRUE)
    ELSE IF peek_char(l) = ChAssign
         THEN LET l2 == read_char(l)
              IN  LexResult(Token(two, <<l.ch, l2.ch>>), read_char(l2), FALSE)
         ELSE LexResult(Token_new(one, l.ch), read_char(l), FALSE)

\* the arms that build a one-character token and then advance
single_arm(l, token_type) == LexResult(Token_new(token_type, l.ch), read_char(l), FALSE)

\* Lexer::next_token
Lexer_next_token(l0) ==
    LET l == skip_whitespace(l0)
    IN  CASE l.ch = ChAssign -> two_char_arm(l, EQ, ASSIGN)
          [] l.ch = ChBang -> two_char_arm(l, NOT_EQ, BANG)
          [] l.ch = ChPlus -> single_arm(l, PLUS)
          [] l.ch = ChMinus -> single_arm(l, MINUS)
          [] l.ch = ChSlash -> single_arm(l, SLASH)
          [] l.ch = ChAsterisk -> single_arm(l, ASTERISK)
          [] l.ch = ChGt -> single_arm(l, GT)
          [] l.ch = ChLt -> single_arm(l, LT)
          [] l.ch = ChSemicolon -> single_arm(l, SEMICOLON)
          [] l.ch = ChComma -> single_arm(l, COMMA)
          [] l.ch = ChLParen -> single_arm(l, LPAREN)
          [] l.ch = ChRParen -> single_arm(l, RPAREN)
          [] l.ch = ChLBrace -> single_arm(l, LBRACE)
          [] l.ch = ChRBrace -> single_arm(l, RBRACE)
          [] l.ch = ChNul -> LexResult(Token(EOF, <<>>), read_char(l), FALSE)
          [] OTHER ->
                IF is_letter(l.ch)
                THEN LET r == read_identifier(l)
                     IN  LexResult(Token(lookup_ident(r.literal), r.literal),
                                   r.lexer, ~r.ok)
                ELSE IF is_digit(l.ch)
                     THEN LET r == read_number(l)
                          IN  LexResult(Token(INT, r.literal), r.lexer, ~r.ok)
                     ELSE single_arm(l, ILLEGAL)

-----------------------------------------------------------------------------
(* AST model (src/ast.rs) *)

\* Option::None for an expression or a statement
None == [node |-> "None"]

IsNone(n) == n.node = "None"

Identifier(token, value) == [node |-> "Identifier", token |-> token, value |-> value]

IntegerLiteral(token, value) ==
    [node |-> "IntegerLiteral", token |-> token, value |-> value]

Boolean(token, value) == [node |-> "Boolean", token |-> token, value |-> value]

PrefixExpression(token, operator, right) ==
    [node |-> "PrefixExpression", token |-> token, operator |-> operator,
     right |-> right]

InfixExpression(token, left, operator, right) ==
    [node |-> "InfixExpression", token |-> token, left |-> left,
     operator |-> operator, right |-> right]

LetStatement(token, name, value) ==
    [node |-> "LetStatement", token |-> token, name |-> name, value |-> value]

ReturnStatement(token, return_value) ==
    [node |-> "ReturnStatement", token |-> token, return_value |-> return_value]

ExpressionStatement(token, expression) ==
    [node |-> "ExpressionStatement", token |-> token, expression |-> expression]

\* Node::token_literal, the same for every node
token_literal(n) == n.token.literal

\* a variant of `format` that writes an InfixExpression without its parentheses
RECURSIVE format_BareInfix(_)
format_BareInfix(n) ==
    CASE n.node = "None" -> <<>>
      [] n.node = "Identifier" -> n.value
      [] n.node = "IntegerLiteral" -> n.token.literal
      [] n.node = "Boolean" -> n.token.literal
      [] n.node = "PrefixExpression" ->
            <<ChLParen>> \o n.operator \o format_BareInfix(n.right) \o <<ChRParen>>
      [] n.node = "InfixExpression" ->
            format_BareInfix(n.left) \o <<ChSpace>> \o n.operator
                \o <<ChSpace>> \o format_BareInfix(n.right)
      [] n.node = "LetStatement" ->
            n.token.literal \o <<ChSpace>> \o format_BareInfix(n.name)
                \o <<ChSpace, ChAssign, ChSpace>> \o format_BareInfix(n.value)
                \o <<ChSemicolon>>
      [] n.node = "ReturnStatement" ->
            n.token.literal \o <<ChSpace>> \o format_BareInfix(n.return_value)
                \o <<ChSemicolon>>
      [] n.node = "ExpressionStatement" -> format_BareInfix(n.expression)

\* Node::format of the expressions and the statements; an absent Option formats
\* as the empty string
RECURSIVE format(_)
format(n) ==
    CASE n.node = "None" -> <<>>
      [] n.node = "Identifier" -> n.value
      [] n.node = "IntegerLiteral" -> n.token.literal
      [] n.node = "Boolean" -> n.token.literal
      [] n.node = "PrefixExpression" ->
            <<ChLParen>> \o n.operator \o format(n.right) \o <<ChRParen>>
      [] n.node = "InfixExpression" ->
            <<ChLParen>> \o format(n.left) \o <<ChSpace>> \o n.operator
                \o <<ChSpace>> \o format(n.right) \o <<ChRParen>>
      [] n.node = "LetStatement" ->
            token_literal(n) \o <<ChSpace>> \o format(n.name)
                \o <<ChSpace, ChAssign, ChSpace>> \o format(n.value)
                \o <<ChSemicolon>>
      [] n.node = "ReturnStatement" ->
            token_literal(n) \o <<ChSpace>> \o format(n.return_value)
                \o <<ChSemicolon>>
      [] n.node = "ExpressionStatement" -> format(n.expression)

\* a variant of Program::format that puts each statement before the ones pushed so far
RECURSIVE Program_format_Reversed(_)
Program_format_Reversed(stats) ==
    IF stats = <<>> THEN <<>> ELSE Program_format_Reversed(Tail(stats)) \o format(Head(stats))

\* Program::format: the statements' formats, concatenated in order
RECURSIVE Program_format(_)
Program_format(stats) ==
    IF stats = <<>> THEN <<>> ELSE format(Head(stats)) \o Program_format(Tail(stats))

-----------------------------------------------------------------------------
(* Parser (src/parser.rs): tables and helpers *)

LOWEST == 1
EQUALS == 2
LESSGREATER == 4
SUM == 8
PRODUCT == 16
PREFIX == 32
CALL == 64

\* a variant of `precedences` that registers `*` and `/` at the level of `+`
precedences_ProductAsSum(token_type) ==
    CASE token_type \in {EQ, NOT_EQ} -> EQUALS
      [] token_type \in {LT, GT} -> LESSGREATER
      [] token_type \in {PLUS, MINUS, SLASH, ASTERISK} -> SUM

\* Parser.precedences, as Parser::new fills it
PrecedenceKinds == {EQ, NOT_EQ, LT, GT, PLUS, MINUS, SLASH, ASTERISK}

precedences(token_type) ==
    CASE token_type \in {EQ, NOT_EQ} -> EQUALS
      [] token_type \in {LT, GT} -> LESSGREATER
      [] token_type \in {PLUS, MINUS} -> SUM
      [] token_type \in {SLASH, ASTERISK} -> PRODUCT

\* the keys of Parser.prefix_parse_fns and of Parser.infix_parse_fns
prefix_parse_fns == {IDENT, INT, BANG, MINUS, TRUE_, FALSE_, LPAREN}

\* a variant of infix_parse_fns in which `*` was not registered
infix_parse_fns_NoAsterisk == {PLUS, MINUS, SLASH, EQ, NOT_EQ, LT, GT}

infix_parse_fns == {PLUS, MINUS, SLASH, ASTERISK, EQ, NOT_EQ, LT, GT}

\* usize::MAX = 2^64 - 1, as its decimal digits
UsizeMaxDigits ==
    <<49, 56, 52, 52, 54, 55, 52, 52, 48, 55, 51, 55, 48, 57, 53, 53, 49, 54, 49, 53>>

RECURSIVE strip_zeros(_)
strip_zeros(digits) ==
    IF Len(digits) > 1 /\ Head(digits) = ChZero
    THEN strip_zeros(Tail(digits))
    ELSE digits

\* a <= b for two numerals of the same length
RECURSIVE numeral_le(_, _)
numeral_le(a, b) ==
    IF a = <<>> THEN TRUE
    ELSE IF Head(a) # Head(b) THEN Head(a) < Head(b)
    ELSE numeral_le(Tail(a), Tail(b))

\* literal.parse::<usize>(): Ok exactly for a non-empty run of digits that does
\* not exceed usize::MAX.  The value is kept as its decimal numeral without
\* leading zeros, since a 64-bit value does not fit TLC's integers.
parse_usize(literal) ==
    LET digits == strip_zeros(literal)
        ok == /\ literal # <<>>
              /\ \A i \in 1..Len(literal) : is_digit(literal[i])
              /\ \/ Len(digits) < Len(UsizeMaxDigits)
                 \/ (Len(digits) = Len(UsizeMaxDigits) /\ numeral_le(digits, UsizeMaxDigits))
    IN  [ok |-> ok, value |-> digits]

\* The parser's fields, as one value the helpers below take and return.  `panic`
\* says that a call made on the way panicked.
ParserState(l, cur, peek, errs, toks, adv, panic) ==
    [lexer |-> l, cur_token |-> cur, peek_token |-> peek, errors |-> errs,
     tokens |-> toks, advances |-> adv, panic |-> panic]

\* a variant of Parser::next_token that puts the new token into cur_token too
Parser_next_token_Overwrites(p) ==
    LET r == Lexer_next_token(p.lexer)
    IN  [p EXCEPT !.cur_token = r.token,
                  !.peek_token = r.token,
                  !.lexer = r.lexer,
                  !.tokens = Append(p.tokens, r.token),
                  !.advances = p.advances + 1,
                  !.panic = p.panic \/ r.panic]

\* Parser::next_token
Parser_next_token(p) ==
    LET r == Lexer_next_token(p.lexer)
    IN  [p EXCEPT !.cur_token = p.peek_token,
                  !.peek_token = r.token,
                  !.lexer = r.lexer,
                  !.tokens = Append(p.tokens, r.token),
                  !.advances = p.advances + 1,
                  !.panic = p.panic \/ r.panic]

\* Parser::new: the first two tokens of the lexer become cur_token and peek_token
Parser_new(l) ==
    LET r1 == Lexer_next_token(l)
        r2 == Lexer_next_token(r1.lexer)
    IN  ParserState(r2.lexer, r1.token, r2.token, <<>>, <<r1.token, r2.token>>, 0,
                    r1.panic \/ r2.panic)

cur_token_is(p, token_type) == p.cur_token.token_type = token_type

peek_token_is(p, token_type) == p.peek_token.token_type = token_type

\* a variant of peek_precedence that answers CALL for a kind the table lacks
peek_precedence_MissingAsCall(p) ==
    IF p.peek_token.token_type \in PrecedenceKinds
    THEN precedences(p.peek_token.token_type)
    ELSE CALL

\* a variant of peek_precedence that finds no token kind in the table
peek_precedence_NotFound(p) == LOWEST

peek_precedence(p) ==
    IF p.peek_token.token_type \in PrecedenceKinds
    THEN precedences(p.peek_token.token_type)
    ELSE LOWEST

\* a variant of cur_precedence that finds no token kind in the table
cur_precedence_NotFound(p) == LOWEST

cur_precedence(p) ==
    IF p.cur_token.token_type \in PrecedenceKinds
    THEN precedences(p.cur_token.token_type)
    ELSE LOWEST

\* the diagnostics: the message's fixed text is the `msg` tag, its two holes
\* are `expected` and `got`
PeekError(expected, got) ==
    [msg |-> "expected next token to be {}, got {} instead",
     expected |-> expected, got |-> got]

NoPrefixError(token_type) ==
    [msg |-> "no prefix parse function for {} found",
     expected |-> "", got |-> token_type]

\* a variant of peek_error that puts the message in front of the earlier ones
peek_error_Prepends(p, token_type) ==
    [p EXCEPT !.errors = <<PeekError(token_type, p.peek_token.token_type)>> \o p.errors]

peek_error(p, token_type) ==
    [p EXCEPT !.errors = Append(p.errors, PeekError(token_type, p.peek_token.token_type))]

\* a variant of no_prefix_parse_fn_error that records nothing
no_prefix_parse_fn_error_Silent(p, token_type) == p

no_prefix_parse_fn_error(p, token_type) ==
    [p EXCEPT !.errors = Append(p.errors, NoPrefixError(token_type))]

\* a variant of expect_peek that answers true without advancing
expect_peek_NoAdvance(p, token_type) ==
    IF peek_token_is(p, token_type)
    THEN [parser |-> p, ok |-> TRUE]
    ELSE [parser |-> peek_error(p, token_type), ok |-> FALSE]

\* Parser::expect_peek: the parser after the call, and the boolean it returns
expect_peek(p, token_type) ==
    IF peek_token_is(p, token_type)
    THEN [parser |-> Parser_next_token(p), ok |-> TRUE]
    ELSE [parser |-> peek_error(p, token_type), ok |-> FALSE]

-----------------------------------------------------------------------------
(* Parser (src/parser.rs): parse_program and the statements *)

\* the parser's fields in the current state
Self == ParserState(lexer, cur_token, peek_token, errors, tokens, advances, FALSE)

\* the parser's fields in the next state
Commit(p) ==
    /\ lexer' = p.lexer
    /\ cur_token' = p.cur_token
    /\ peek_token' = p.peek_token
    /\ errors' = p.errors
    /\ tokens' = p.tokens
    /\ advances' = p.advances

\* control moves to `target`, unless a call made on the way panicked
Goto(p, target) == pc' = IF p.panic THEN "panic" ELSE target

\* one active call of parse_expression: its `precedence` argument, its
\* `expression` so far (None before the prefix function has run), and who called
\* it: parse_expression_statement ("statement"), parse_prefix_expression_fn
\* ("prefix"), parse_prefix_grouped_expression_fn ("grouped") or
\* parse_infix_expression_fn ("infix"), with the caller's saved `token` and, for
\* the infix function, its `left` argument
Frame(precedence, via, token, lhs) ==
    [precedence |-> precedence, left |-> None, via |-> via, token |-> token,
     lhs |-> lhs]

Top == stack[Len(stack)]

Pop == SubSeq(stack, 1, Len(stack) - 1)

\* the stack with the `expression` of its innermost call set
SetLeft(stk, e) == [stk EXCEPT ![Len(stk)].left = e]

\* the end of the body of parse_program's loop: the statement, when there is
\* one, is pushed, and the parser advances
FinishStatement(p, stat) ==
    LET p2 == Parser_next_token(p)
    IN  /\ statements' = IF IsNone(stat) THEN statements ELSE Append(statements, stat)
        /\ Commit(p2)
        /\ Goto(p2, "parse_program")
        /\ stack' = <<>>
        /\ pending' = None

\* parse_program: the loop ends at EOF and the Program is returned
ParseProgramReturn ==
    /\ pc = "parse_program"
    /\ cur_token.token_type = EOF
    /\ pc' = "done"
    /\ UNCHANGED <<lexer, cur_token, peek_token, errors, statements, stack,
                   pending, tokens, advances, first, out>>

\* parse_statement on LET: parse_let_statement up to its skipping loop
ParseLetStatement ==
    /\ pc = "parse_program"
    /\ cur_token.token_type = LET_
    /\ LET token == cur_token
           e1 == expect_peek(Self, IDENT)
           name == Identifier(e1.parser.cur_token, e1.parser.cur_token.literal)
           e2 == expect_peek(e1.parser, ASSIGN)
       IN  IF ~e1.ok THEN FinishStatement(e1.parser, None)
           ELSE IF ~e2.ok THEN FinishStatement(e2.parser, None)
           ELSE /\ Commit(e2.parser)
                /\ Goto(e2.parser, "let_skip")
                /\ pending' = LetStatement(token, name, None)
                /\ UNCHANGED <<statements, stack>>
    /\ UNCHANGED <<first, out>>

\* parse_statement on RETURN: parse_return_statement up to its skipping loop
ParseReturnStatement ==
    /\ pc = "parse_program"
    /\ cur_token.token_type = RETURN
    /\ LET token == cur_token
           p == Parser_next_token(Self)
       IN  /\ Commit(p)
           /\ Goto(p, "return_skip")
           /\ pending' = ReturnStatement(token, None)
    /\ UNCHANGED <<statements, stack, first, out>>

\* one turn of `while !self.cur_token_is(SEMICOLON) { self.next_token(); }` in
\* parse_let_statement and parse_return_statement, or its exit: the statement is
\* returned with no value
SkipToSemicolon(at) ==
    /\ IF cur_token_is(Self, SEMICOLON)
       THEN FinishStatement(Self, pending)
       ELSE /\ lexer.read_position < Len(lexer.input) + MaxOverrun
            /\ LET p == Parser_next_token(Self)
               IN  /\ Commit(p)
                   /\ Goto(p, at)
            /\ UNCHANGED <<statements, stack, pending>>
    /\ UNCHANGED <<first, out>>

\* the skipping loop of parse_let_statement
LetSkipToSemicolon ==
    /\ pc = "let_skip"
    /\ SkipToSemicolon("let_skip")

\* the skipping loop of parse_return_statement
ReturnSkipToSemicolon ==
    /\ pc = "return_skip"
    /\ SkipToSemicolon("return_skip")

\* parse_statement on any other token: parse_expression_statement calls
\* parse_expression(LOWEST)
ParseExpressionStatement ==
    /\ pc = "parse_program"
    /\ cur_token.token_type \notin {EOF, LET_, RETURN}
    /\ stack' = <<Frame(LOWEST, "statement", cur_token, None)>>
    /\ pc' = "parse_expression"
    /\ UNCHANGED <<lexer, cur_token, peek_token, errors, statements, pending,
                   tokens, advances, first, out>>

\* a variant of ParseExpressionStatementReturn that leaves the semicolon where it is
ParseExpressionStatementReturn_KeepsSemicolon ==
    /\ pc = "return"
    /\ Top.via = "statement"
    /\ FinishStatement(Self, ExpressionStatement(Top.token, Top.left))
    /\ UNCHANGED <<first, out>>

\* parse_expression_statement after parse_expression has returned: the optional
\* semicolon is consumed and the statement is returned, whatever the expression
ParseExpressionStatementReturn ==
    /\ pc = "return"
    /\ Top.via = "statement"
    /\ LET p == IF peek_token_is(Self, SEMICOLON) THEN Parser_next_token(Self) ELSE Self
       IN  FinishStatement(p, ExpressionStatement(Top.token, Top.left))
    /\ UNCHANGED <<first, out>>

-----------------------------------------------------------------------------
(* Parser (src/parser.rs): parse_expression and the parsing functions *)

\* a prefix function that takes no further token has returned `e`: it becomes
\* the call's `expression` and the infix loop is next
LeafParsed(e) ==
    /\ stack' = SetLeft(stack, e)
    /\ pc' = "infix_loop"
    /\ UNCHANGED <<lexer, cur_token, peek_token, errors, statements, pending,
                   tokens, advances, first, out>>

\* parse_expression: no prefix function for the current token
ParseExpressionNoPrefix ==
    /\ pc = "parse_expression"
    /\ cur_token.token_type \notin prefix_parse_fns
    /\ Commit(no_prefix_parse_fn_error(Self, cur_token.token_type))
    /\ pc' = "return"
    /\ UNCHANGED <<statements, stack, pending, first, out>>

\* parse_identifier_fn
ParseIdentifier ==
    /\ pc = "parse_expression"
    /\ cur_token.token_type = IDENT
    /\ LeafParsed(Identifier(cur_token, cur_token.literal))

\* parse_integer_literal_fn: a literal that is no usize makes `expect` panic
ParseIntegerLiteral ==
    /\ pc = "parse_expression"
    /\ cur_token.token_type = INT
    /\ LET n == parse_usize(cur_token.literal)
       IN  IF n.ok
           THEN LeafParsed(IntegerLiteral(cur_token, n.value))
           ELSE /\ pc' = "panic"
                /\ UNCHANGED <<lexer, cur_token, peek_token, errors, statements,
                               stack, pending, tokens, advances, first, out>>

\* parse_prefix_boolean_fn
ParseBoolean ==
    /\ pc = "parse_expression"
    /\ cur_token.token_type \in {TRUE_, FALSE_}
    /\ LeafParsed(Boolean(cur_token, cur_token_is(Self, TRUE_)))

\* parse_prefix_expression_fn up to its call of parse_expression(PREFIX)
ParsePrefixExpression ==
    /\ pc = "parse_expression"
    /\ cur_token.token_type \in {BANG, MINUS}
    /\ LET token == cur_token
           p == Parser_next_token(Self)
       IN  /\ Commit(p)
           /\ Goto(p, "parse_expression")
           /\ stack' = Append(stack, Frame(PREFIX, "prefix", token, None))
    /\ UNCHANGED <<statements, pending, first, out>>

\* parse_prefix_expression_fn after the call: `expect` panics on None, else the
\* PrefixExpression is the caller's `expression`
ParsePrefixExpressionReturn ==
    /\ pc = "return"
    /\ Top.via = "prefix"
    /\ IF IsNone(Top.left)
       THEN pc' = "panic" /\ UNCHANGED stack
       ELSE /\ stack' = SetLeft(Pop, PrefixExpression(Top.token, Top.token.literal, Top.left))
            /\ pc' = "infix_loop"
    /\ UNCHANGED <<lexer, cur_token, peek_token, errors, statements, pending,
                   tokens, advances, first, out>>

\* a variant of ParseGroupedExpression that parses the group's body at PREFIX
ParseGroupedExpression_AtPrefix ==
    /\ pc = "parse_expression"
    /\ cur_token.token_type = LPAREN
    /\ LET p == Parser_next_token(Self)
       IN  /\ Commit(p)
           /\ Goto(p, "parse_expression")
           /\ stack' = Append(stack, Frame(PREFIX, "grouped", cur_token, None))
    /\ UNCHANGED <<statements, pending, first, out>>

\* parse_prefix_grouped_expression_fn up to its call of parse_expression(LOWEST)
ParseGroupedExpression ==
    /\ pc = "parse_expression"
    /\ cur_token.token_type = LPAREN
    /\ LET p == Parser_next_token(Self)
       IN  /\ Commit(p)
           /\ Goto(p, "parse_expression")
           /\ stack' = Append(stack, Frame(LOWEST, "grouped", cur_token, None))
    /\ UNCHANGED <<statements, pending, first, out>>

\* parse_prefix_grouped_expression_fn after the call: `unwrap` panics on None;
\* else expect_peek(RPAREN) runs, and whatever it answers the inner expression
\* is returned as it is
ParseGroupedExpressionReturn ==
    /\ pc = "return"
    /\ Top.via = "grouped"
    /\ IF IsNone(Top.left)
       THEN /\ pc' = "panic"
            /\ UNCHANGED <<lexer, cur_token, peek_token, errors, stack, tokens,
                           advances>>
       ELSE LET e == expect_peek(Self, RPAREN)
            IN  /\ Commit(e.parser)
                /\ Goto(e.parser, "infix_loop")
                /\ stack' = SetLeft(Pop, Top.left)
    /\ UNCHANGED <<statements, pending, first, out>>

\* whether parse_expression's `while` takes another turn
InfixLoopContinues ==
    ~peek_token_is(Self, SEMICOLON) /\ Top.precedence < peek_precedence(Self)

\* one turn of parse_expression's loop.  With an infix function for the peeked
\* token: the parser advances and parse_infix_expression_fn runs up to its call
\* of parse_expression(precedence).  Without one the turn changes nothing.
ParseInfixExpression ==
    /\ pc = "infix_loop"
    /\ InfixLoopContinues
    /\ IF peek_token.token_type \in infix_parse_fns
       THEN LET p1 == Parser_next_token(Self)
                token == p1.cur_token
                precedence == cur_precedence(p1)
                p2 == Parser_next_token(p1)
            IN  /\ Commit(p2)
                /\ Goto(p2, "parse_expression")
                /\ stack' = Append(stack, Frame(precedence, "infix", token, Top.left))
       ELSE UNCHANGED <<lexer, cur_token, peek_token, errors, stack, tokens,
                        advances, pc>>
    /\ UNCHANGED <<statements, pending, first, out>>

\* parse_infix_expression_fn after the call: `expect` panics on None, else the
\* InfixExpression is the caller's `expression`
ParseInfixExpressionReturn ==
    /\ pc = "return"
    /\ Top.via = "infix"
    /\ IF IsNone(Top.left)
       THEN pc' = "panic" /\ UNCHANGED stack
       ELSE /\ stack' = SetLeft(Pop, InfixExpression(Top.token, Top.lhs,
                                                     Top.token.literal, Top.left))
            /\ pc' = "infix_loop"
    /\ UNCHANGED <<lexer, cur_token, peek_token, errors, statements, pending,
                   tokens, advances, first, out>>

\* parse_expression's loop ends and `expression` is returned
ParseExpressionReturn ==
    /\ pc = "infix_loop"
    /\ ~InfixLoopContinues
    /\ pc' = "return"
    /\ UNCHANGED <<lexer, cur_token, peek_token, errors, statements, stack,
                   pending, tokens, advances, first, out>>

-----------------------------------------------------------------------------
(* Sources *)

\* the sequences over S of length at most n
SeqsUpTo(S, n) == UNION {[1..k -> S] : k \in 0..n}

\* the strings of ss, joined by single spaces
RECURSIVE Join(_)
Join(ss) ==
    IF ss = <<>> THEN <<>>
    ELSE IF Len(ss) = 1 THEN ss[1]
    ELSE ss[1] \o <<ChSpace>> \o Join(Tail(ss))

\* the strings of ss, concatenated
RECURSIVE Concat(_)
Concat(ss) == IF ss = <<>> THEN <<>> ELSE Head(ss) \o Concat(Tail(ss))

\* the inputs of src/parser.rs's tests and of the specification's examples
TestInputs ==
    { Str(<<"-", "a", " ", "*", " ", "b">>),
      Str(<<"!", "-", "a">>),
      Str(<<"a", " ", "+", " ", "b", " ", "+", " ", "c">>),
      Str(<<"a", " ", "+", " ", "b", " ", "-", " ", "c">>),
      Str(<<"a", " ", "*", " ", "b", " ", "*", " ", "c">>),
      Str(<<"a", " ", "*", " ", "b", " ", "/", " ", "c">>),
      Str(<<"a", " ", "+", " ", "b", " ", "*", " ", "c", " ", "+", " ", "d", " ", "/", " ", "e", " ", "-", " ", "f">>),
      Str(<<"3", " ", "+", " ", "4", ";", " ", "-", "5", " ", "*", " ", "5">>),
      Str(<<"5", " ", ">", " ", "4", " ", "=", "=", " ", "3", " ", "<", " ", "4">>),
      Str(<<"5", " ", "<", " ", "4", " ", "!", "=", " ", "3", " ", ">", " ", "4">>),
      Str(<<"3", " ", "+", " ", "4", " ", "*", " ", "5", " ", "=", "=", " ", "3", " ", "*", " ", "1", " ", "+", " ", "4", " ", "*", " ", "5">>),
      Str(<<"(", "5", " ", "+", " ", "5", ")", " ", "*", " ", "2">>),
      Str(<<"l", "e", "t", " ", "x", " ", "=", " ", "5", ";">>),
      Str(<<"l", "e", "t", " ", "x", " ", "5", ";">>),
      Str(<<"r", "e", "t", "u", "r", "n", " ", "5", ";">>),
      Str(<<"l", "e", "t", " ", "x", " ", "=", " ", "5">>),
      Str(<<"f", "o", "o", "b", "a", "r", ";">>) }

\* the lexemes the enumerated sources of the parser are made of
Lexemes ==
    { Str(<<"a">>), Str(<<"5">>), Str(<<"t", "r", "u", "e">>),
      Str(<<"+">>), Str(<<"*">>), Str(<<"-">>), Str(<<"!">>),
      Str(<<"=", "=">>), Str(<<"<">>), Str(<<"(">>), Str(<<")">>), Str(<<";">>),
      Str(<<"=">>), Str(<<"l", "e", "t">>), Str(<<"r", "e", "t", "u", "r", "n">>) }

\* every source of at most MaxLexemes lexemes
LexemeInputs == { Join(ls) : ls \in SeqsUpTo(Lexemes, MaxLexemes) }

\* the atoms and the infix operators of the sources `x OP1 y OP2 z`
Atoms == { Str(<<"a">>), Str(<<"5">>), Str(<<"t", "r", "u", "e">>) }

InfixOperators ==
    { Str(<<"+">>), Str(<<"-">>), Str(<<"*">>), Str(<<"/">>), Str(<<"<">>),
      Str(<<">">>), Str(<<"=", "=">>), Str(<<"!", "=">>) }

PrefixOperators == { Str(<<"-">>), Str(<<"!">>) }

\* x OP1 y OP2 z, for all atoms and infix operators
TwoOperatorInputs ==
    { Join(<<x, o1, y, o2, z>>) :
        x \in Atoms, o1 \in InfixOperators, y \in Atoms, o2 \in InfixOperators,
        z \in Atoms }

\* P x OP y and x OP P y, for all prefix operators P
PrefixOperatorInputs ==
    { Join(<<q, x, o, y>>) :
        q \in PrefixOperators, x \in Atoms, o \in InfixOperators, y \in Atoms }
    \cup
    { Join(<<x, o, q, y>>) :
        q \in PrefixOperators, x \in Atoms, o \in InfixOperators, y \in Atoms }

\* ( x OP1 y ) OP2 z and x OP1 ( y OP2 z )
GroupedInputs ==
    { Join(<<Str(<<"(">>), Str(<<"a">>), o1, Str(<<"5">>), Str(<<")">>), o2,
             Str(<<"a">>)>>) :
        o1 \in InfixOperators, o2 \in InfixOperators }
    \cup
    { Join(<<Str(<<"a">>), o1, Str(<<"(">>), Str(<<"5">>), o2, Str(<<"a">>),
             Str(<<")">>)>>) :
        o1 \in InfixOperators, o2 \in InfixOperators }

\* usize::MAX + 1 = 2^64, as a source
UsizeOverflow ==
    Str(<<"1", "8", "4", "4", "6", "7", "4", "4", "0", "7", "3", "7", "0", "9", "5", "5",
          "1", "6", "1", "6">>)

\* sources with a statement the parser cannot accept as it stands: a value
\* expression that is missing, a let without a name, an integer literal beyond
\* usize (and, next to it, usize::MAX itself and a literal with leading zeros),
\* a group that is never closed, a second failure after a first
ErrorInputs ==
    { Str(<<"l", "e", "t", " ", "x", " ", "=", " ", ";">>),
      Str(<<"l", "e", "t", " ", "x", " ", "=", " ", "+", " ", ";">>),
      Str(<<"l", "e", "t", " ", "=", " ", "1", "0", ";", " ", "l", "e", "t", " ", "y", " ", "=", " ", "1", ";">>),
      UsizeOverflow,
      UsizeOverflow \o Str(<<";", " ", "5", ";">>),
      UsizeMaxDigits,
      Str(<<"0", "0", "7">>),
      Str(<<"(", "5", " ", "+", " ", "5", ";">>),
      Str(<<"(", "5", " ", "+", " ", "5">>),
      Str(<<"=", " ", "(", "5", ";">>),
      Str(<<"l", "e", "t", " ", "=", " ", "1", ";", " ", "l", "e", "t", " ", "5", ";">>),
      Str(<<"l", "e", "t", " ", "x", " ", "5", ";", " ", "(", "x", ";">>) }

\* the well-formed statements `let <ident> = <int>;` and `return <int>;` of the
\* tests, each as its kind, its identifier and its integer
StatementShapes ==
    { [kind |-> "let", name |-> Str(<<"x">>), int |-> Str(<<"5">>)],
      [kind |-> "let", name |-> Str(<<"y">>), int |-> Str(<<"1", "0">>)],
      [kind |-> "let", name |-> Str(<<"f", "o", "o", "b", "a", "r">>),
       int |-> Str(<<"8", "3", "8", "3", "8", "3">>)],
      [kind |-> "return", name |-> <<>>, int |-> Str(<<"5">>)],
      [kind |-> "return", name |-> <<>>, int |-> Str(<<"1", "0">>)],
      [kind |-> "return", name |-> <<>>, int |-> Str(<<"9", "9", "3", "3", "2", "2">>)] }

\* the text of one statement
Render(shape) ==
    IF shape.kind = "let"
    THEN Str(<<"l", "e", "t", " ">>) \o shape.name \o Str(<<" ", "=", " ">>) \o shape.int
             \o Str(<<";">>)
    ELSE Str(<<"r", "e", "t", "u", "r", "n", " ">>) \o shape.int \o Str(<<";">>)

\* the text of a sequence of statements
RenderAll(shapes) == Join([i \in 1..Len(shapes) |-> Render(shapes[i])])

\* every source of at most MaxStatements well-formed statements
StatementInputs == { RenderAll(ss) : ss \in SeqsUpTo(StatementShapes, MaxStatements) }

\* the expressions of one atom, of a prefix operator and an atom, and of two
\* atoms around an infix operator
SimpleExpressions ==
    Atoms
        \cup { Join(<<q, x>>) : q \in PrefixOperators, x \in Atoms }
        \cup { Join(<<x, o, y>>) : x \in Atoms, o \in InfixOperators, y \in Atoms }

\* the expressions of the sources `e1; e2`
PairExpressions ==
    { Str(<<"a">>), Str(<<"5">>), Str(<<"-", " ", "a">>), Str(<<"!", " ", "t", "r", "u", "e">>),
      Str(<<"a", " ", "+", " ", "5">>), Str(<<"5", " ", "*", " ", "a">>) }

\* e and e; for every simple expression, and e1; e2
SemicolonInputs ==
    SimpleExpressions
        \cup { e \o Str(<<";">>) : e \in SimpleExpressions }
        \cup { e1 \o Str(<<";", " ">>) \o e2 : e1 \in PairExpressions, e2 \in PairExpressions }

\* the identifiers, the integers and the sources of the tests of the basic
\* expression shapes: `x;`, `n;`, `OPn;` and `n OP m;`
BasicIdentifiers == { Str(<<"a">>), Str(<<"f", "o", "o", "b", "a", "r">>) }

BasicIntegers == { Str(<<"5">>), Str(<<"1", "5">>), Str(<<"0">>) }

BasicInputs ==
    { x \o Str(<<";">>) : x \in BasicIdentifiers \cup BasicIntegers }
        \cup { q \o n \o Str(<<";">>) : q \in PrefixOperators, n \in BasicIntegers }
        \cup { Join(<<n, o, m>>) \o Str(<<";">>) :
                   n \in BasicIntegers, o \in InfixOperators, m \in BasicIntegers }

\* sources with a token that has no prefix strategy where a value is expected:
\* a comma, braces, an Illegal token (`#`), an infix-only operator, a `)`
NoPrefixInputs ==
    { Str(<<",">>), Str(<<"{", " ", "a", " ", "}">>), <<35>>, <<ChLowerA, ChSpace, 35>>,
      Str(<<"/", " ", "5">>), Str(<<"5", " ", "+", " ", ")">>), Str(<<"(", "=", ")">>) }

ParserInputs ==
    NoPrefixInputs \cup SemicolonInputs \cup BasicInputs \cup StatementInputs \cup TestInputs \cup LexemeInputs \cup TwoOperatorInputs \cup PrefixOperatorInputs
        \cup GroupedInputs \cup ErrorInputs

\* the characters the enumerated raw sources of the lexer are made of: symbols,
\* a letter, a digit, white space, a NUL, a quote, a `#` and a two-byte character
LexCharacters ==
    { <<ChAssign>>, <<ChBang>>, <<ChPlus>>, <<ChSemicolon>>, <<ChLowerA>>, <<ChZero>>,
      <<ChSpace>>, <<ChNul>>, <<ChDQuote>>, <<35>>, <<195, 169>> }

LexInputs == { Concat(cs) : cs \in SeqsUpTo(LexCharacters, MaxLen) }

\* the symbols of the symbol table that the first test of src/lexer.rs lexes,
\* and the two-character operators
Symbols ==
    { Str(<<"=">>), Str(<<"+">>), Str(<<"(">>), Str(<<")">>), Str(<<"{">>), Str(<<"}">>),
      Str(<<",">>), Str(<<";">>), Str(<<"=", "=">>), Str(<<"!", "=">>) }

\* the keywords, as the specification lists them
KeywordWords ==
    { Str(<<"f", "n">>), Str(<<"l", "e", "t">>), Str(<<"t", "r", "u", "e">>),
      Str(<<"f", "a", "l", "s", "e">>), Str(<<"i", "f">>), Str(<<"e", "l", "s", "e">>),
      Str(<<"r", "e", "t", "u", "r", "n">>) }

\* words of letters and underscores that are next to a keyword, or far from all
OtherWords ==
    { Str(<<"l", "e", "t", "x">>), Str(<<"L", "e", "t">>), Str(<<"f", "i", "v", "e">>),
      Str(<<"l", "e">>), Str(<<"l", "e", "t", "t">>), Str(<<"f">>), Str(<<"f", "n", "_">>),
      Str(<<"_", "i", "f">>), Str(<<"i", "f", "f">>), Str(<<"e", "l", "s">>),
      Str(<<"t", "r", "u">>), Str(<<"f", "a", "l", "s", "e", "e">>),
      Str(<<"r", "e", "t", "u", "r", "n", "s">>), Str(<<"x">>), Str(<<"_">>) }

\* the words, each a source of its own, and the specification's `let five = 5;`
WordInputs ==
    KeywordWords \cup OtherWords
        \cup { Str(<<"l", "e", "t", " ", "f", "i", "v", "e", " ", "=", " ", "5", ";">>) }

\* letters, an underscore, digits, a sign and a space
ScanCharacters ==
    { Str(<<"f">>), Str(<<"o">>), Str(<<"_">>), Str(<<"1">>), Str(<<"5">>), Str(<<"-">>),
      Str(<<" ">>) }

\* every text of at most MaxLen of these characters, and longer ones with runs
\* of letters and digits side by side
ScanInputs ==
    { Concat(cs) : cs \in SeqsUpTo(ScanCharacters, MaxLen) }
        \cup { Str(<<"f", "o", "o", "1">>), Str(<<"_", "f", "o", "o">>),
               Str(<<"f", "o", "o", "_", "1", "5", " ", "-", "5", "1", "f">>) }

\* every concatenation of at most MaxLen symbols, and the input of the test
SymbolInputs ==
    { Concat(ss) : ss \in SeqsUpTo(Symbols, MaxLen) }
        \cup { Str(<<"=", "+", "(", ")", "{", "}", ",", ";">>) }

-----------------------------------------------------------------------------
(* The parser, run on a source *)

\* the Program and the diagnostics of a finished parse
Parsed(stats, errs) == [statements |-> stats, errors |-> errs]

\* `first` before the round trip has kept a Program
NoProgram == <<>>

\* Lexer::new(input), then Parser::new(lexer)
StartParser(input) ==
    LET p == Parser_new(Lexer_new(input))
    IN  /\ ~p.panic
        /\ lexer = p.lexer
        /\ cur_token = p.cur_token
        /\ peek_token = p.peek_token
        /\ errors = p.errors
        /\ tokens = p.tokens
        /\ advances = p.advances
        /\ statements = <<>>
        /\ stack = <<>>
        /\ pending = None
        /\ pc = "parse_program"

Init ==
    /\ \E input \in ParserInputs : StartParser(input)
    /\ first = NoProgram
    /\ out = <<>>

\* the caller of the round trip: the Program is formatted, and the text is
\* parsed by a fresh lexer and a fresh parser
Reparse ==
    /\ pc = "done"
    /\ first = NoProgram
    /\ first' = <<Parsed(statements, errors)>>
    /\ LET p == Parser_new(Lexer_new(Program_format(statements)))
       IN  /\ Commit(p)
           /\ Goto(p, "parse_program")
    /\ statements' = <<>>
    /\ UNCHANGED <<stack, pending, out>>

Next ==
    \/ ParseProgramReturn
    \/ ParseLetStatement
    \/ LetSkipToSemicolon
    \/ ParseReturnStatement
    \/ ReturnSkipToSemicolon
    \/ ParseExpressionStatement
    \/ ParseExpressionStatementReturn
    \/ ParseExpressionNoPrefix
    \/ ParseIdentifier
    \/ ParseIntegerLiteral
    \/ ParseBoolean
    \/ ParsePrefixExpression
    \/ ParsePrefixExpressionReturn
    \/ ParseGroupedExpression
    \/ ParseGroupedExpressionReturn
    \/ ParseInfixExpression
    \/ ParseInfixExpressionReturn
    \/ ParseExpressionReturn
    \/ Reparse

Spec == Init /\ [][Next]_vars

-----------------------------------------------------------------------------
(* The lexer alone, driven as src/repl.rs and the tests drive it *)

InitLex ==
    /\ \E input \in LexInputs \cup SymbolInputs \cup WordInputs \cup ScanInputs : lexer = Lexer_new(input)
    /\ cur_token = NoToken
    /\ peek_token = NoToken
    /\ errors = <<>>
    /\ statements = <<>>
    /\ stack = <<>>
    /\ pending = None
    /\ pc = "lex"
    /\ tokens = <<>>
    /\ advances = 0
    /\ first = NoProgram
    /\ out = <<>>

\* one call of Lexer::next_token by the driver
LexNextToken ==
    /\ pc = "lex"
    /\ lexer.read_position < Len(lexer.input) + MaxOverrun
    /\ LET r == Lexer_next_token(lexer)
       IN  IF r.panic
           THEN pc' = "panic" /\ UNCHANGED <<lexer, tokens>>
           ELSE /\ lexer' = r.lexer
                /\ tokens' = Append(tokens, r.token)
                /\ pc' = "lex"
    /\ UNCHANGED <<cur_token, peek_token, errors, statements, stack, pending,
                   advances, first, out>>

NextLex == LexNextToken

SpecLex == InitLex /\ [][NextLex]_vars

-----------------------------------------------------------------------------
(* Program::format, called on Programs built by hand as the test of src/ast.rs does *)

\* expressions, each with the text the specification gives it
ExpressionCases ==
    { [expr |-> Identifier(Token(IDENT, Str(<<"a", "n", "o", "t", "h", "e", "r", "V", "a", "r">>)),
                           Str(<<"a", "n", "o", "t", "h", "e", "r", "V", "a", "r">>)),
       text |-> Str(<<"a", "n", "o", "t", "h", "e", "r", "V", "a", "r">>)],
      [expr |-> IntegerLiteral(Token(INT, Str(<<"5">>)), Str(<<"5">>)),
       text |-> Str(<<"5">>)],
      [expr |-> Boolean(Token(TRUE_, Str(<<"t", "r", "u", "e">>)), TRUE),
       text |-> Str(<<"t", "r", "u", "e">>)],
      [expr |-> PrefixExpression(Token(MINUS, Str(<<"-">>)), Str(<<"-">>),
                                 Identifier(Token(IDENT, Str(<<"a">>)), Str(<<"a">>))),
       text |-> Str(<<"(", "-", "a", ")">>)],
      [expr |-> InfixExpression(Token(PLUS, Str(<<"+">>)),
                                Identifier(Token(IDENT, Str(<<"a">>)), Str(<<"a">>)),
                                Str(<<"+">>),
                                IntegerLiteral(Token(INT, Str(<<"5">>)), Str(<<"5">>))),
       text |-> Str(<<"(", "a", " ", "+", " ", "5", ")">>)] }

\* the values a statement of the enumerated Programs may hold
FormatValues == { c.expr : c \in ExpressionCases } \cup { None }

FormatNames == { Str(<<"m", "y", "V", "a", "r">>), Str(<<"x">>) }

\* the statements of the enumerated Programs
FormatStatements ==
    { LetStatement(Token(LET_, Str(<<"l", "e", "t">>)), Identifier(Token(IDENT, n), n), v) :
        n \in FormatNames, v \in FormatValues }
    \cup { ReturnStatement(Token(RETURN, Str(<<"r", "e", "t", "u", "r", "n">>)), v) :
              v \in FormatValues }
    \cup { ExpressionStatement(c.expr.token, c.expr) : c \in ExpressionCases }

InitFormat ==
    /\ statements \in SeqsUpTo(FormatStatements, MaxProgram)
    /\ lexer = Lexer_new(<<>>)
    /\ cur_token = NoToken
    /\ peek_token = NoToken
    /\ errors = <<>>
    /\ stack = <<>>
    /\ pending = None
    /\ pc = "format"
    /\ tokens = <<>>
    /\ advances = 0
    /\ first = NoProgram
    /\ out = <<>>

\* one call of Program::format by the caller
ProgramFormat ==
    /\ pc = "format"
    /\ out' = Program_format(statements)
    /\ pc' = "formatted"
    /\ UNCHANGED <<lexer, cur_token, peek_token, errors, statements, stack, pending,
                   tokens, advances, first>>

NextFormat == ProgramFormat

SpecFormat == InitFormat /\ [][NextFormat]_vars

-----------------------------------------------------------------------------
(* Helpers of the properties *)

Last(seq) == seq[Len(seq)]

\* the source the lexer reads
Source == lexer.input

\* the first parse of the source has returned its Program
FirstParseDone == pc = "done" /\ first = NoProgram

\* how many tokens the lexer returns for the source before the first EOF
RECURSIVE TokensBeforeEof(_)
TokensBeforeEof(l) ==
    LET r == Lexer_next_token(l)
    IN  IF r.panic \/ r.token.token_type = EOF THEN 0
        ELSE 1 + TokensBeforeEof(r.lexer)

\* the words of a source, which single spaces separate
RECURSIVE Words(_)
Words(s) ==
    IF s = <<>> THEN << <<>> >>
    ELSE LET rest == Words(Tail(s))
         IN  IF Head(s) = ChSpace
             THEN << <<>> >> \o rest
             ELSE << <<Head(s)>> \o Head(rest) >> \o Tail(rest)

\* the level of an infix operator in the specification's order
\* Equals < LessGreater < Sum < Product
BindingLevel(o) ==
    CASE o \in {Str(<<"=", "=">>), Str(<<"!", "=">>)} -> 1
      [] o \in {Str(<<"<">>), Str(<<">">>)} -> 2
      [] o \in {Str(<<"+">>), Str(<<"-">>)} -> 3
      [] o \in {Str(<<"*">>), Str(<<"/">>)} -> 4

\* the token kind of an operator lexeme
OperatorKind(o) ==
    CASE o = Str(<<"=", "=">>) -> EQ
      [] o = Str(<<"!", "=">>) -> NOT_EQ
      [] o = Str(<<"<">>) -> LT
      [] o = Str(<<">">>) -> GT
      [] o = Str(<<"+">>) -> PLUS
      [] o = Str(<<"-">>) -> MINUS
      [] o = Str(<<"*">>) -> ASTERISK
      [] o = Str(<<"/">>) -> SLASH
      [] o = Str(<<"!">>) -> BANG

\* the trees the properties expect: an atom, a prefix and an infix node
AtomNode(x) ==
    IF x = Str(<<"t", "r", "u", "e">>) THEN Boolean(Token(TRUE_, x), TRUE)
    ELSE IF is_digit(x[1]) THEN IntegerLiteral(Token(INT, x), x)
    ELSE Identifier(Token(IDENT, x), x)

PrefixNode(o, right) == PrefixExpression(Token(OperatorKind(o), o), o, right)

InfixNode(left, o, right) == InfixExpression(Token(OperatorKind(o), o), left, o, right)

\* the Program is one ExpressionStatement holding `e`, and nothing was diagnosed
ParsedExactly(e) ==
    /\ Len(statements) = 1
    /\ statements[1].node = "ExpressionStatement"
    /\ statements[1].expression = e
    /\ errors = <<>>

-----------------------------------------------------------------------------
(* C1 *)

\* C1: once Lexer::next_token has returned an EndOfFile token, every later call
\* on the same lexer returns EndOfFile with an empty literal, whatever bytes the
\* source holds; no later call returns another kind or fails.
C1_EofIsTerminal ==
    [][(tokens # <<>> /\ Last(tokens).token_type = EOF)
         => (pc' = "lex" /\ Last(tokens') = Token(EOF, <<>>))]_vars

-----------------------------------------------------------------------------
(* C2 *)

\* C2: parse_program terminates for every source, with or without semicolons:
\* it returns when cur_token reaches EndOfFile, so the parser never advances
\* more often than the source has tokens before its EndOfFile.
C2_ParseProgramTerminates == advances <= TokensBeforeEof(Lexer_new(Source))

-----------------------------------------------------------------------------
(* C3 *)

\* C3: no failure inside expression parsing unwinds past parse_program: when an
\* operand or a group's body has no prefix strategy the parser never panics.
C3_NoUnwinding == ~(pc = "panic" /\ cur_token.token_type \notin prefix_parse_fns)

-----------------------------------------------------------------------------
(* C4 *)

\* C4: Program.statements holds only statements that parsed: an expression
\* statement for which no expression was produced is not inserted.
C4_OnlyParsedStatements ==
    \A i \in 1..Len(statements) :
        statements[i].node = "ExpressionStatement" => ~IsNone(statements[i].expression)

-----------------------------------------------------------------------------
(* C5 *)

\* the sources `let <ident> <int>;` of the model
LetWithoutAssign == { Str(<<"l", "e", "t", " ", "x", " ", "5", ";">>), Str(<<"l", "e", "t", " ", "a", " ", "5", " ", ";">>) }

\* C5: a let statement without `=` yields a Program with zero statements and
\* exactly one diagnostic, `expected next token to be =, got INT instead`.
C5_LetWithoutAssign ==
    (FirstParseDone /\ Source \in LetWithoutAssign)
        => (statements = <<>> /\ errors = <<PeekError(ASSIGN, INT)>>)

-----------------------------------------------------------------------------
(* C6 *)

\* C6: for the well-formed `let x = 5;` the LetStatement's value is the expression
\* parsed after `=`, and for `return 5;` the ReturnStatement's value is the
\* expression parsed after `return`; the value is never absent, so that the
\* Program formats back to the source.
C6_ValueAttached ==
    /\ (FirstParseDone /\ Source = Str(<<"l", "e", "t", " ", "x", " ", "=", " ", "5", ";">>))
          => /\ Len(statements) = 1
             /\ statements[1].node = "LetStatement"
             /\ statements[1].value = AtomNode(Str(<<"5">>))
             /\ Program_format(statements) = Source
    /\ (FirstParseDone /\ Source = Str(<<"r", "e", "t", "u", "r", "n", " ", "5", ";">>))
          => /\ Len(statements) = 1
             /\ statements[1].node = "ReturnStatement"
             /\ statements[1].return_value = AtomNode(Str(<<"5">>))
             /\ Program_format(statements) = Source

-----------------------------------------------------------------------------
(* C7 *)

\* the tree of `x o1 y o2 z` when the operator of the higher level binds
\* tighter and operators of one level group to the left
TwoOperatorTree(x, o1, y, o2, z) ==
    IF BindingLevel(o2) > BindingLevel(o1)
    THEN InfixNode(AtomNode(x), o1, InfixNode(AtomNode(y), o2, AtomNode(z)))
    ELSE InfixNode(InfixNode(AtomNode(x), o1, AtomNode(y)), o2, AtomNode(z))

\* C7 (precedence law): in an expression statement Prefix binds tighter than
\* Product, Product than Sum, Sum than LessGreater and LessGreater than Equals:
\* `x OP1 y OP2 z` groups around the operator of the lower level, a prefix
\* operator takes only the atom after it, and the three sources of the claim
\* format as it says.
C7_PrecedenceLaw ==
    FirstParseDone =>
        LET w == Words(Source)
        IN  /\ (Source \in TwoOperatorInputs /\ BindingLevel(w[2]) # BindingLevel(w[4]))
                  => ParsedExactly(TwoOperatorTree(w[1], w[2], w[3], w[4], w[5]))
            /\ (Source \in PrefixOperatorInputs /\ w[1] \in PrefixOperators)
                  => ParsedExactly(InfixNode(PrefixNode(w[1], AtomNode(w[2])), w[3],
                                             AtomNode(w[4])))
            /\ (Source \in PrefixOperatorInputs /\ w[1] \notin PrefixOperators)
                  => ParsedExactly(InfixNode(AtomNode(w[1]), w[2],
                                             PrefixNode(w[3], AtomNode(w[4]))))
            /\ Source = Str(<<"-", "a", " ", "*", " ", "b">>)
                  => (errors = <<>> /\ Program_format(statements) = Str(<<"(", "(", "-", "a", ")", " ", "*", " ", "b", ")">>))
            /\ Source = Str(<<"a", " ", "+", " ", "b", " ", "*", " ", "c", " ", "+", " ", "d", " ", "/", " ", "e", " ", "-", " ", "f">>)
                  => (errors = <<>> /\ Program_format(statements) =
                        Str(<<"(", "(", "(", "a", " ", "+", " ", "(", "b", " ", "*", " ", "c", ")", ")", " ", "+", " ", "(", "d", " ", "/", " ", "e", ")", ")", " ", "-", " ", "f", ")">>))
            /\ Source = Str(<<"5", " ", ">", " ", "4", " ", "=", "=", " ", "3", " ", "<", " ", "4">>)
                  => (errors = <<>> /\ Program_format(statements) =
                        Str(<<"(", "(", "5", " ", ">", " ", "4", ")", " ", "=", "=", " ", "(", "3", " ", "<", " ", "4", ")", ")">>))

\* a source whose second operator binds tighter than its first has been parsed
C7_Witness ==
    /\ FirstParseDone
    /\ Source = Str(<<"a", " ", "+", " ", "b", " ", "*", " ", "c", " ", "+", " ", "d", " ", "/", " ", "e", " ", "-", " ", "f">>)
    /\ Len(statements) = 1
    /\ statements[1].expression.node = "InfixExpression"

-----------------------------------------------------------------------------
(* C8 *)

\* C8 (left-associativity law): for operators OP1, OP2 of one level and atoms
\* x, y, z, `x OP1 y OP2 z` parses to InfixExpression(OP2, InfixExpression(OP1,
\* x, y), z), never to InfixExpression(OP1, x, InfixExpression(OP2, y, z)).
C8_LeftAssociativity ==
    FirstParseDone =>
        LET w == Words(Source)
        IN  (Source \in TwoOperatorInputs /\ BindingLevel(w[2]) = BindingLevel(w[4]))
               => /\ ParsedExactly(InfixNode(InfixNode(AtomNode(w[1]), w[2], AtomNode(w[3])),
                                             w[4], AtomNode(w[5])))
                  /\ statements[1].expression #
                        InfixNode(AtomNode(w[1]), w[2],
                                  InfixNode(AtomNode(w[3]), w[4], AtomNode(w[5])))

\* `a + 5 - a`, two different operators of the level Sum, has been parsed
C8_Witness ==
    /\ FirstParseDone
    /\ Source = Str(<<"a", " ", "+", " ", "5", " ", "-", " ", "a">>)
    /\ Source \in TwoOperatorInputs
    /\ Len(statements) = 1
    /\ statements[1].expression.node = "InfixExpression"
    /\ statements[1].expression.left.node = "InfixExpression"

-----------------------------------------------------------------------------
(* C9 *)

\* C9 (grouping): `( e )` is parsed at Lowest precedence and is one operand of
\* the operators around it whatever their precedence, with no node of its own:
\* `( a OP1 5 ) OP2 a` parses to (a OP1 5) OP2 a and `a OP1 ( 5 OP2 a )` to
\* a OP1 (5 OP2 a), and `(5 + 5) * 2` formats to `((5 + 5) * 2)`, all without
\* diagnostics.
C9_Grouping ==
    FirstParseDone =>
        LET w == Words(Source)
        IN  /\ (Source \in GroupedInputs /\ w[1] = Str(<<"(">>))
                  => ParsedExactly(InfixNode(InfixNode(AtomNode(w[2]), w[3], AtomNode(w[4])),
                                             w[6], AtomNode(w[7])))
            /\ (Source \in GroupedInputs /\ w[1] # Str(<<"(">>))
                  => ParsedExactly(InfixNode(AtomNode(w[1]), w[2],
                                             InfixNode(AtomNode(w[4]), w[5], AtomNode(w[6]))))
            /\ Source = Str(<<"(", "5", " ", "+", " ", "5", ")", " ", "*", " ", "2">>)
                  => /\ ParsedExactly(InfixNode(InfixNode(AtomNode(Str(<<"5">>)), Str(<<"+">>),
                                                          AtomNode(Str(<<"5">>))),
                                                Str(<<"*">>), AtomNode(Str(<<"2">>))))
                     /\ Program_format(statements) = Str(<<"(", "(", "5", " ", "+", " ", "5", ")", " ", "*", " ", "2", ")">>)

\* `(5 + 5) * 2` has been parsed, the group being the left operand of `*`
C9_Witness ==
    /\ FirstParseDone
    /\ Source = Str(<<"(", "5", " ", "+", " ", "5", ")", " ", "*", " ", "2">>)
    /\ Len(statements) = 1
    /\ statements[1].expression.node = "InfixExpression"
    /\ statements[1].expression.operator = Str(<<"*">>)

-----------------------------------------------------------------------------
(* C10 *)

\* the first parse gave one expression statement and no diagnostic
FirstWasOneExpression ==
    /\ first # NoProgram
    /\ first[1].errors = <<>>
    /\ Len(first[1].statements) = 1
    /\ first[1].statements[1].node = "ExpressionStatement"

\* C10 (format/parse round trip): when a source parses without diagnostics to
\* one expression statement, lexing and parsing the Program's format does not
\* fail and yields the same expression tree (nodes, operators, leaf literals),
\* again without diagnostics.
C10_RoundTrip ==
    FirstWasOneExpression =>
        /\ pc # "panic"
        /\ pc = "done" =>
              /\ errors = <<>>
              /\ Len(statements) = 1
              /\ statements[1].node = "ExpressionStatement"
              /\ statements[1].expression = first[1].statements[1].expression

\* the format of `(a + 5) * a`, whose tree is not the one its words alone give,
\* has been parsed again
C10_Witness ==
    /\ FirstWasOneExpression
    /\ pc = "done"
    /\ Source = Str(<<"(", "(", "a", " ", "+", " ", "5", ")", " ", "*", " ", "a", ")">>)
    /\ first[1].statements[1].expression.node = "InfixExpression"
    /\ first[1].statements[1].expression.left.node = "InfixExpression"

-----------------------------------------------------------------------------
(* C11 *)

\* a byte next_token has no arm for: no white space, no listed symbol, no
\* letter or underscore, no digit and not the end sentinel
Unclassified(ch) ==
    /\ ~is_whitespace(ch)
    /\ ~is_letter(ch)
    /\ ~is_digit(ch)
    /\ ch \notin {ChNul, ChAssign, ChBang, ChPlus, ChMinus, ChSlash, ChAsterisk, ChGt,
                  ChLt, ChSemicolon, ChComma, ChLParen, ChRParen, ChLBrace, ChRBrace}

\* C11: Lexer::next_token never fails: whatever the source and however many
\* calls were made, no call panics on a slice of the source, and a source of
\* one unclassified byte yields an Illegal token first.
C11_NextTokenNeverFails ==
    /\ pc # "panic"
    /\ (Len(Source) = 1 /\ Unclassified(Source[1]) /\ tokens # <<>>)
          => tokens[1].token_type = ILLEGAL

-----------------------------------------------------------------------------
(* C12 *)

\* sources whose let or return statement has no value expression, or a
\* malformed one
MissingValueSources ==
    { Str(<<"l", "e", "t", " ", "x", " ", "=", " ", ";">>),
      Str(<<"l", "e", "t", " ", "x", " ", "=", " ", "+", " ", ";">>),
      Str(<<"r", "e", "t", "u", "r", "n", " ", ";">>),
      Str(<<"r", "e", "t", "u", "r", "n", " ", "+", " ", ";">>) }

\* C12: an empty diagnostics list after parse_program means a syntactically
\* clean source: a source whose value expression after `let x =` or `return`
\* is missing or malformed yields at least one diagnostic.
C12_EmptyDiagnosticsMeanClean ==
    (FirstParseDone /\ Source \in MissingValueSources) => errors # <<>>

-----------------------------------------------------------------------------
(* C13 *)

\* C13: an integer literal that IntegerLiteral.value cannot hold fails only its
\* statement and appends a diagnostic: the parser does not panic on it, and in
\* `18446744073709551616; 5;` the statement `5;` is still parsed.  A literal
\* that is representable gets its decimal value.
C13_IntegerOverflowIsLocal ==
    /\ ~(pc = "panic" /\ cur_token.token_type = INT /\ ~parse_usize(cur_token.literal).ok)
    /\ (FirstParseDone /\ Source = UsizeOverflow \o Str(<<";", " ", "5", ";">>))
          => /\ errors # <<>>
             /\ statements = <<ExpressionStatement(Token(INT, Str(<<"5">>)),
                                                   AtomNode(Str(<<"5">>)))>>
    /\ (FirstParseDone /\ Source = UsizeMaxDigits)
          => ParsedExactly(IntegerLiteral(Token(INT, Source), Source))
    /\ (FirstParseDone /\ Source = Str(<<"0", "0", "7">>))
          => ParsedExactly(IntegerLiteral(Token(INT, Source), Str(<<"7">>)))

-----------------------------------------------------------------------------
(* C14 *)

\* C14: after a statement fails with a token-kind mismatch, parsing resumes at
\* the next statement boundary: in `let = 10; let y = 1;` the tokens `= 10 ;`
\* give no statement and no further diagnostic, and the one statement of the
\* Program is `let y`.
C14_ResumesAtBoundary ==
    (FirstParseDone /\ Source = Str(<<"l", "e", "t", " ", "=", " ", "1", "0", ";", " ", "l", "e", "t", " ", "y", " ", "=", " ", "1", ";">>))
        => /\ errors = <<PeekError(IDENT, ASSIGN)>>
           /\ Len(statements) = 1
           /\ statements[1].node = "LetStatement"
           /\ statements[1].name.value = Str(<<"y">>)

-----------------------------------------------------------------------------
(* C15 *)

\* the parsed statement is the one the source statement `shape` asks for
Matches(stat, shape) ==
    IF shape.kind = "let"
    THEN /\ stat.node = "LetStatement"
         /\ token_literal(stat) = Str(<<"l", "e", "t">>)
         /\ stat.name.value = shape.name
         /\ token_literal(stat.name) = shape.name
    ELSE /\ stat.node = "ReturnStatement"
         /\ token_literal(stat) = Str(<<"r", "e", "t", "u", "r", "n">>)

\* C15: a source of n well-formed statements `let <ident> = <int>;` or
\* `return <int>;` parses to a Program of exactly n statements in source order,
\* the i-th a LetStatement (token literal `let`, name value and name token
\* literal the i-th identifier) or a ReturnStatement (token literal `return`) as
\* the i-th source statement is, and nothing is diagnosed.
C15_WellFormedStatements ==
    (FirstParseDone /\ Source \in StatementInputs) =>
        \A ss \in SeqsUpTo(StatementShapes, MaxStatements) :
            Source = RenderAll(ss)
                => /\ errors = <<>>
                   /\ Len(statements) = Len(ss)
                   /\ \A i \in 1..Len(ss) : Matches(statements[i], ss[i])

\* `let x = 5; return 10;` has been parsed to two statements
C15_Witness ==
    /\ FirstParseDone
    /\ Source = Str(<<"l", "e", "t", " ", "x", " ", "=", " ", "5", ";", " ", "r", "e", "t", "u", "r", "n", " ", "1", "0", ";">>)
    /\ Source \in StatementInputs
    /\ Len(statements) = 2
    /\ statements[1].node = "LetStatement"
    /\ statements[2].node = "ReturnStatement"

-----------------------------------------------------------------------------
(* C16 *)

\* the kind the symbol table gives a symbol
SymbolKind(symbol) ==
    CASE symbol = Str(<<"=">>) -> ASSIGN
      [] symbol = Str(<<"+">>) -> PLUS
      [] symbol = Str(<<"(">>) -> LPAREN
      [] symbol = Str(<<")">>) -> RPAREN
      [] symbol = Str(<<"{">>) -> LBRACE
      [] symbol = Str(<<"}">>) -> RBRACE
      [] symbol = Str(<<",">>) -> COMMA
      [] symbol = Str(<<";">>) -> SEMICOLON
      [] symbol = Str(<<"=", "=">>) -> EQ
      [] symbol = Str(<<"!", "=">>) -> NOT_EQ

\* the tokens of a text of symbols, the longest symbol first
RECURSIVE SymbolTokens(_)
SymbolTokens(s) ==
    IF s = <<>> THEN <<>>
    ELSE IF Len(s) >= 2 /\ SubSeq(s, 1, 2) \in {Str(<<"=", "=">>), Str(<<"!", "=">>)}
         THEN <<Token(SymbolKind(SubSeq(s, 1, 2)), SubSeq(s, 1, 2))>>
                  \o SymbolTokens(SubSeq(s, 3, Len(s)))
         ELSE <<Token(SymbolKind(<<Head(s)>>), <<Head(s)>>)>> \o SymbolTokens(Tail(s))

\* C16: for a concatenation of the symbols = + ( ) { } , ; == != the lexer
\* returns one token per symbol, in order, with the kind of the symbol table
\* and the symbol's text as literal, the longest symbol first (two adjacent `=`
\* are one Equal token), and EndOfFile with an empty literal after them.
C16_SymbolTable ==
    Source \in SymbolInputs =>
        LET expected == SymbolTokens(Source)
        IN  /\ pc # "panic"
            /\ \A i \in 1..Len(tokens) :
                  tokens[i] = IF i <= Len(expected) THEN expected[i] ELSE Token(EOF, <<>>)

\* `=+(){},;` has been lexed up to its EndOfFile, and so has `!===`
C16_Witness ==
    \/ /\ Source = Str(<<"=", "+", "(", ")", "{", "}", ",", ";">>)
       /\ Len(tokens) = 9
       /\ tokens[9].token_type = EOF
    \/ /\ Source = Str(<<"!", "=", "=", "=">>)
       /\ Len(tokens) = 3
       /\ tokens[1].token_type = NOT_EQ
       /\ tokens[2].token_type = EQ

-----------------------------------------------------------------------------
(* C17 *)

\* the kind of a word: its keyword kind when it is a keyword, Identifier otherwise
KeywordKind(word) ==
    CASE word = Str(<<"f", "n">>) -> FUNCTION
      [] word = Str(<<"l", "e", "t">>) -> LET_
      [] word = Str(<<"t", "r", "u", "e">>) -> TRUE_
      [] word = Str(<<"f", "a", "l", "s", "e">>) -> FALSE_
      [] word = Str(<<"i", "f">>) -> IF_
      [] word = Str(<<"e", "l", "s", "e">>) -> ELSE_
      [] word = Str(<<"r", "e", "t", "u", "r", "n">>) -> RETURN
      [] OTHER -> IDENT

\* the tokens of `let five = 5;`
LetFiveTokens ==
    << Token(LET_, Str(<<"l", "e", "t">>)), Token(IDENT, Str(<<"f", "i", "v", "e">>)),
       Token(ASSIGN, Str(<<"=">>)), Token(INT, Str(<<"5">>)), Token(SEMICOLON, Str(<<";">>)),
       Token(EOF, <<>>) >>

-----------------------------------------------------------------------------
(* C18 *)

\* the tree of a simple expression, read off its words
SimpleTree(e) ==
    LET w == Words(e)
    IN  CASE Len(w) = 1 -> AtomNode(w[1])
          [] Len(w) = 2 -> PrefixNode(w[1], AtomNode(w[2]))
          [] Len(w) = 3 -> InfixNode(AtomNode(w[1]), w[2], AtomNode(w[3]))

\* C18: the semicolon after an expression statement is optional and only
\* separates statements: `e` and `e;` parse to the same Program of one
\* expression statement without diagnostics, `e1; e2` parses to exactly two
\* expression statements in order, and `3 + 4; -5 * 5` formats to
\* `(3 + 4)((-5) * 5)`.
C18_OptionalSemicolon ==
    (FirstParseDone /\ Source \in SemicolonInputs \cup TestInputs) =>
        /\ \A e \in SimpleExpressions :
              (Source = e \/ Source = e \o Str(<<";">>)) => ParsedExactly(SimpleTree(e))
        /\ \A e1 \in PairExpressions, e2 \in PairExpressions :
              Source = e1 \o Str(<<";", " ">>) \o e2
                  => /\ errors = <<>>
                     /\ Len(statements) = 2
                     /\ \A i \in 1..2 : statements[i].node = "ExpressionStatement"
                     /\ statements[1].expression = SimpleTree(e1)
                     /\ statements[2].expression = SimpleTree(e2)
        /\ Source = Str(<<"3", " ", "+", " ", "4", ";", " ", "-", "5", " ", "*", " ", "5">>)
              => /\ errors = <<>>
                 /\ Len(statements) = 2
                 /\ Program_format(statements) =
                       Str(<<"(", "3", " ", "+", " ", "4", ")", "(", "(", "-", "5", ")", " ", "*", " ", "5", ")">>)

\* `a + 5;`, an expression with its semicolon, has been parsed to one statement
\* whose token after it was the end of the source
C18_Witness ==
    /\ FirstParseDone
    /\ Source = Str(<<"a", " ", "+", " ", "5", ";">>)
    /\ Len(statements) = 1
    /\ statements[1].expression.node = "InfixExpression"
    /\ Last(tokens).token_type = EOF

-----------------------------------------------------------------------------
(* C19 *)

\* C19 (basic expression shapes): `x;` parses to one ExpressionStatement holding
\* Identifier{value x}, `n;` to IntegerLiteral{value n, token literal n}, `OPn;`
\* with OP in {!, -} to PrefixExpression{operator OP, right n}, and `n OP m;`
\* with OP in {+, -, *, /, >, <, ==, !=} to InfixExpression{left n, operator OP,
\* right m}; each Program has exactly one statement and no diagnostic.
C19_BasicShapes ==
    (FirstParseDone /\ Source \in BasicInputs) =>
        /\ \A x \in BasicIdentifiers :
              Source = x \o Str(<<";">>)
                  => /\ ParsedExactly(Identifier(Token(IDENT, x), x))
                     /\ statements[1].expression.value = x
        /\ \A n \in BasicIntegers :
              Source = n \o Str(<<";">>)
                  => /\ ParsedExactly(IntegerLiteral(Token(INT, n), n))
                     /\ statements[1].expression.value = n
                     /\ token_literal(statements[1].expression) = n
        /\ \A q \in PrefixOperators, n \in BasicIntegers :
              Source = q \o n \o Str(<<";">>)
                  => /\ ParsedExactly(PrefixNode(q, AtomNode(n)))
                     /\ statements[1].expression.operator = q
                     /\ statements[1].expression.right.value = n
        /\ \A n \in BasicIntegers, o \in InfixOperators, m \in BasicIntegers :
              Source = Join(<<n, o, m>>) \o Str(<<";">>)
                  => /\ ParsedExactly(InfixNode(AtomNode(n), o, AtomNode(m)))
                     /\ statements[1].expression.left.value = n
                     /\ statements[1].expression.operator = o
                     /\ statements[1].expression.right.value = m

\* `15 != 0;` has been parsed to an InfixExpression, and `-15;` to a PrefixExpression
C19_Witness ==
    /\ FirstParseDone
    /\ Len(statements) = 1
    /\ \/ /\ Source = Str(<<"1", "5", " ", "!", "=", " ", "0", ";">>)
          /\ statements[1].expression.node = "InfixExpression"
       \/ /\ Source = Str(<<"-", "1", "5", ";">>)
          /\ statements[1].expression.node = "PrefixExpression"

-----------------------------------------------------------------------------
(* C20 *)

\* some call so far has returned EndOfFile
EofReturned == \E i \in 1..Len(tokens) : tokens[i].token_type = EOF

\* C20 (lexer progress): for a source of length n the lexer's position never
\* decreases across calls, every call that returns a token other than
\* EndOfFile consumes at least one byte, and EndOfFile is returned no later
\* than the (n+1)-th call: as long as it has not been returned, at most n calls
\* were made and each returned a token.  For a source of white space only (the
\* empty source is one) the first call returns EndOfFile.
C20_LexerProgress ==
    /\ [](~EofReturned => (pc = "lex" /\ Len(tokens) <= Len(Source)))
    /\ []((\A i \in 1..Len(Source) : is_whitespace(Source[i])) /\ tokens # <<>>
             => tokens[1].token_type = EOF)
    /\ [][/\ lexer'.position >= lexer.position
          /\ (tokens' # tokens /\ Last(tokens').token_type # EOF)
                => lexer'.position > lexer.position]_vars

-----------------------------------------------------------------------------
(* C21 *)

\* the text the specification gives an expression of ExpressionCases
TextOf(e) == (CHOOSE c \in ExpressionCases : c.expr = e).text

\* the Program of tests::test_node_format: let myVar = anotherVar
TestProgram ==
    << LetStatement(Token(LET_, Str(<<"l", "e", "t">>)),
                    Identifier(Token(IDENT, Str(<<"m", "y", "V", "a", "r">>)),
                               Str(<<"m", "y", "V", "a", "r">>)),
                    Identifier(Token(IDENT, Str(<<"a", "n", "o", "t", "h", "e", "r", "V", "a", "r">>)),
                               Str(<<"a", "n", "o", "t", "h", "e", "r", "V", "a", "r">>))) >>

\* C21: the format of a Program is the concatenation, in order, of the formats
\* of its statements; a LetStatement with name n and value expression v formats
\* as `let n = v;`; and the Program of the single statement let myVar =
\* anotherVar formats to exactly `let myVar = anotherVar;`.
C21_ProgramFormat ==
    pc = "formatted" =>
        /\ out = Concat([i \in 1..Len(statements) |-> format(statements[i])])
        /\ \A i \in 1..Len(statements) :
              (statements[i].node = "LetStatement" /\ ~IsNone(statements[i].value))
                  => format(statements[i]) =
                        Str(<<"l", "e", "t", " ">>) \o statements[i].name.value
                            \o Str(<<" ", "=", " ">>) \o TextOf(statements[i].value)
                            \o Str(<<";">>)
        /\ statements = TestProgram
              => out = Str(<<"l", "e", "t", " ", "m", "y", "V", "a", "r", " ", "=", " ", "a", "n", "o", "t", "h", "e", "r", "V", "a", "r", ";">>)

\* the Program of the test has been formatted
C21_Witness ==
    /\ pc = "formatted"
    /\ statements = TestProgram
    /\ Len(out) = 23

-----------------------------------------------------------------------------
(* C22 *)

\* C22 (lexer cursor invariant): after Lexer::new and after every call of
\* next_token, read_position = position + 1, and the current byte is 0 exactly
\* when position >= len(source), for every source, a source that holds a byte
\* of value 0 included.
C22_CursorInvariant ==
    /\ lexer.read_position = lexer.position + 1
    /\ (lexer.ch = ChNul) <=> (lexer.position >= Len(Source))

-----------------------------------------------------------------------------
(* C23 *)

\* the source holds non-zero ASCII bytes only
AsciiSource == \A i \in 1..Len(Source) : Source[i] >= 1 /\ Source[i] <= 127

\* the call that has just returned `token` took the bytes from `from` up to
\* `to`: white space first, which belongs to no token, then the token's lexeme
\* and nothing else; an EndOfFile token is returned over white space only
TokenIsNextSlice(token, from, to) ==
    IF token.token_type = EOF
    THEN \A i \in (from + 1)..Len(Source) : is_whitespace(Source[i])
    ELSE \E start \in from..Len(Source) :
            /\ \A i \in (from + 1)..start : is_whitespace(Source[i])
            /\ start < to
            /\ to <= Len(Source)
            /\ token.literal = SubSeq(Source, start + 1, to)
            /\ \A i \in (start + 1)..to : ~is_whitespace(Source[i])

\* C23 (dual advance policy, byte coverage): for a source of non-zero ASCII
\* bytes the lexemes of the tokens returned before the first EndOfFile are, in
\* order, disjoint contiguous slices of the source that cover every byte that
\* is no white space exactly once: each token's lexeme starts where the white
\* space after the previous token ends and the lexer then stands right after
\* it, whether the token is a symbol or an identifier / integer.
C23_ByteCoverage ==
    [][(AsciiSource /\ ~EofReturned /\ tokens' # tokens)
          => TokenIsNextSlice(Last(tokens'), lexer.position, lexer'.position)]_vars

-----------------------------------------------------------------------------
(* C24 *)

\* the index of the first byte at or after index i that is no white space
RECURSIVE SkipTo(_)
SkipTo(i) ==
    IF i < Len(Source) /\ is_whitespace(Source[i + 1]) THEN SkipTo(i + 1) ELSE i

\* the call made from a lexer whose next byte that is no white space is `=` or
\* `!`, at index s, returns the operator the byte after it asks for
TwoCharacterOperator(s) ==
    LET c == Source[s + 1]
    IN  /\ pc' = "lex"
        /\ tokens' # tokens
        /\ IF s + 1 < Len(Source) /\ Source[s + 2] = ChAssign
           THEN /\ Last(tokens') = Token(IF c = ChAssign THEN EQ ELSE NOT_EQ, <<c, ChAssign>>)
                /\ lexer'.position = s + 2
           ELSE /\ Last(tokens') = Token(IF c = ChAssign THEN ASSIGN ELSE BANG, <<c>>)
                /\ lexer'.position = s + 1
        /\ lexer'.read_position = lexer'.position + 1

\* C24 (two-character operators): when the current byte is `=` or `!` and the
\* next byte is `=`, next_token returns one Equal / NotEqual token with the
\* two-character literal and consumes both bytes; when the next byte is
\* anything else, or the input ends, it returns Assign / Bang with a
\* one-character literal and consumes exactly one byte (`===` lexes as Equal,
\* then Assign).
C24_TwoCharacterOperators ==
    [][LET s == SkipTo(lexer.position)
       IN  (pc = "lex" /\ s < Len(Source) /\ Source[s + 1] \in {ChAssign, ChBang})
              => TwoCharacterOperator(s)]_vars

-----------------------------------------------------------------------------
(* C25 *)

\* the letters (the underscore is one) and the digits of ScanCharacters
ScanLetters == { Code("f"), Code("o"), Code("_") }

ScanDigits == { Code("1"), Code("5") }

\* the length of the longest prefix of s whose bytes are all in `class`
RECURSIVE RunLength(_, _)
RunLength(s, class) ==
    IF s # <<>> /\ Head(s) \in class THEN 1 + RunLength(Tail(s), class) ELSE 0

\* the tokens of a text of ScanCharacters: maximal runs of letters, maximal runs
\* of digits, and each sign on its own
RECURSIVE RunTokens(_)
RunTokens(s) ==
    IF s = <<>> THEN <<>>
    ELSE IF Head(s) = Code(" ") THEN RunTokens(Tail(s))
    ELSE IF Head(s) = Code("-")
         THEN <<Token(MINUS, <<Head(s)>>)>> \o RunTokens(Tail(s))
    ELSE LET class == IF Head(s) \in ScanLetters THEN ScanLetters ELSE ScanDigits
             n == RunLength(s, class)
             run == SubSeq(s, 1, n)
         IN  <<Token(IF class = ScanLetters THEN KeywordKind(run) ELSE INT, run)>>
                 \o RunTokens(SubSeq(s, n + 1, Len(s)))

\* C25 (maximal-run scanning): an identifier lexeme is the maximal run of
\* letters and `_` from the current byte and an integer lexeme the maximal run
\* of digits: a digit after letters ends the identifier and starts an Integer
\* (`foo1` is Identifier("foo"), Integer("1")), `_foo` is one Identifier, and a
\* sign is never part of an Integer (`-5` is Minus, Integer("5")).
C25_MaximalRuns ==
    Source \in ScanInputs =>
        LET expected == RunTokens(Source)
        IN  /\ pc # "panic"
            /\ \A i \in 1..Len(tokens) :
                  tokens[i] = IF i <= Len(expected) THEN expected[i] ELSE Token(EOF, <<>>)

\* `foo1` has been lexed to an Identifier and an Integer, then EndOfFile
C25_Witness ==
    /\ Source = Str(<<"f", "o", "o", "1">>)
    /\ Len(tokens) = 3
    /\ tokens[1] = Token(IDENT, Str(<<"f", "o", "o">>))
    /\ tokens[2] = Token(INT, Str(<<"1">>))
    /\ tokens[3].token_type = EOF

-----------------------------------------------------------------------------
(* C26 *)

\* C26: for a byte that is no white space, no listed symbol, no letter or
\* underscore, no digit and not 0, next_token returns an Illegal token whose
\* literal is exactly that one byte (also for a quote, a backslash or a control
\* byte) and advances the lexer by exactly one byte.
C26_IllegalCarriesTheByte ==
    [][LET s == SkipTo(lexer.position)
       IN  (pc = "lex" /\ s < Len(Source) /\ Unclassified(Source[s + 1]))
              => /\ pc' = "lex"
                 /\ tokens' # tokens
                 /\ Last(tokens') = Token(ILLEGAL, <<Source[s + 1]>>)
                 /\ lexer'.position = s + 1]_vars

-----------------------------------------------------------------------------
(* C27 *)

\* the first n tokens of the stream of a lexer
RECURSIVE Stream(_, _)
Stream(l, n) ==
    IF n = 0 THEN <<>>
    ELSE LET r == Lexer_next_token(l)
         IN  <<r.token>> \o Stream(r.lexer, n - 1)

\* C27 (two-token lookahead window): after Parser::new current and peek are the
\* first and the second token of the lexer's stream, and after any number of
\* advances they are its k-th and (k+1)-th token, the lexer having been pulled
\* exactly k+1 times: the tokens the parser has pulled are a prefix of the
\* stream, none skipped, doubled or read again.
C27_LookaheadWindow ==
    LET n == Len(tokens)
    IN  /\ n = advances + 2
        /\ cur_token = tokens[n - 1]
        /\ peek_token = tokens[n]
        /\ tokens = Stream(Lexer_new(Source), n)

\* the parser has advanced twice over `a + 5 - a`: the window holds the third
\* and the fourth token
C27_Witness ==
    /\ Source = Str(<<"a", " ", "+", " ", "5", " ", "-", " ", "a">>)
    /\ advances = 2
    /\ Len(tokens) = 4
    /\ cur_token = Token(INT, Str(<<"5">>))
    /\ peek_token = Token(MINUS, Str(<<"-">>))

-----------------------------------------------------------------------------
(* C28 *)

\* parse_expression's loop ends here: the peeked token is a Semicolon, or binds
\* no tighter than the `precedence` argument, or has no infix strategy
InfixLoopExits ==
    \/ peek_token.token_type = SEMICOLON
    \/ peek_precedence(Self) <= Top.precedence
    \/ peek_token.token_type \notin infix_parse_fns

\* C28: every turn of parse_expression's infix loop advances the parser, the
\* peeked token becoming the current one that the infix strategy works on; the
\* loop exits, consuming nothing, as soon as the peeked token is a Semicolon,
\* binds no tighter than the precedence argument or has no infix strategy; and
\* it never turns without consuming a token, because every token kind with a
\* registered precedence above Lowest has a registered infix strategy.
C28_InfixLoop ==
    /\ [](\A k \in PrecedenceKinds : precedences(k) > LOWEST => k \in infix_parse_fns)
    /\ []((pc = "infix_loop" /\ InfixLoopContinues)
             => peek_token.token_type \in infix_parse_fns)
    /\ [][pc = "infix_loop"
            => IF InfixLoopExits
               THEN pc' = "return" /\ UNCHANGED <<cur_token, peek_token, advances, tokens>>
               ELSE /\ pc' = "parse_expression"
                    /\ advances' > advances
                    /\ Last(stack').via = "infix"
                    /\ Last(stack').token = peek_token
                    /\ Len(stack') = Len(stack) + 1]_vars

\* a turn of the loop has run on `a + 5 * a`: the infix strategy of `*` is at
\* work inside the one of `+`
C28_Witness ==
    /\ Source = Str(<<"a", " ", "+", " ", "5", " ", "*", " ", "a">>)
    /\ pc = "parse_expression"
    /\ Len(stack) = 3
    /\ Top.via = "infix"
    /\ Top.token.token_type = ASTERISK

-----------------------------------------------------------------------------
(* C29 *)

\* C29: when parse_expression is called while the current token's kind has no
\* prefix strategy (an infix-only operator, `=`, `)`, `,`, a brace, an Illegal
\* token), it appends exactly one diagnostic `no prefix parse function for
\* <kind> found`, returns no expression, and leaves current and peek unchanged.
C29_NoPrefixStrategy ==
    [][(pc = "parse_expression" /\ cur_token.token_type \notin prefix_parse_fns)
          => /\ errors' = Append(errors, NoPrefixError(cur_token.token_type))
             /\ pc' = "return"
             /\ IsNone(Last(stack').left)
             /\ Len(stack') = Len(stack)
             /\ UNCHANGED <<cur_token, peek_token, tokens, advances>>]_vars

\* parse_expression has returned nothing for the Illegal token of `#`, and for
\* the `)` after `5 +`
C29_Witness ==
    /\ pc = "return"
    /\ IsNone(Top.left)
    /\ \/ (Source = <<35>> /\ errors = <<NoPrefixError(ILLEGAL)>>)
       \/ (Source = Str(<<"5", " ", "+", " ", ")">>) /\ errors = <<NoPrefixError(RPAREN)>>)

-----------------------------------------------------------------------------
(* C30 *)

\* the sources with a group that is opened and never closed, and the kind of the
\* token that stands where the `)` should
UnclosedGroups ==
    { [source |-> Str(<<"(", "5", " ", "+", " ", "5", ";">>), got |-> SEMICOLON],
      [source |-> Str(<<"(", "5", " ", "+", " ", "5">>), got |-> EOF] }

\* C30: when a parenthesised group is not followed by `)` (e.g. `(5 + 5;`), the
\* parser records the diagnostic `expected next token to be ), got <kind>
\* instead` and the containing statement fails, i.e. it is not inserted into
\* Program.statements.
C30_UnclosedGroupFails ==
    \A g \in UnclosedGroups :
        (FirstParseDone /\ Source = g.source)
            => /\ errors = <<PeekError(RPAREN, g.got)>>
               /\ statements = <<>>

-----------------------------------------------------------------------------
(* C31 *)

\* the level the claim gives each token kind
PrecedenceLevel(kind) ==
    IF kind \in {EQ, NOT_EQ} THEN EQUALS
    ELSE IF kind \in {LT, GT} THEN LESSGREATER
    ELSE IF kind \in {PLUS, MINUS} THEN SUM
    ELSE IF kind \in {ASTERISK, SLASH} THEN PRODUCT
    ELSE LOWEST

\* C31: the precedence constants are strictly ordered Lowest < Equals <
\* LessGreater < Sum < Product < Prefix < Call and all fit 8 bits; `==`, `!=` map
\* to Equals, `<`, `>` to LessGreater, `+`, `-` to Sum, `*`, `/` to Product; every
\* token kind without a registered precedence is treated as Lowest, so it never
\* continues an infix loop.
C31_PrecedenceLevels ==
    /\ [](/\ 0 <= LOWEST /\ LOWEST < EQUALS /\ EQUALS < LESSGREATER
          /\ LESSGREATER < SUM /\ SUM < PRODUCT /\ PRODUCT < PREFIX
          /\ PREFIX < CALL /\ CALL < 256)
    /\ [](/\ peek_precedence(Self) = PrecedenceLevel(peek_token.token_type)
          /\ cur_precedence(Self) = PrecedenceLevel(cur_token.token_type))
    /\ [][(pc = "infix_loop" /\ PrecedenceLevel(peek_token.token_type) = LOWEST)
             => /\ pc' = "return"
                /\ UNCHANGED <<cur_token, peek_token, advances, tokens, errors>>]_vars

\* the loop of the parse_expression inside a group has stopped at the `)`, and
\* the loop of a statement's parse_expression at the end of the input
C31_Witness ==
    /\ pc = "return"
    /\ ~IsNone(Top.left)
    /\ peek_precedence(Self) = LOWEST
    /\ \/ Top.via = "grouped" /\ peek_token.token_type = RPAREN
       \/ Top.via = "statement" /\ peek_token.token_type = EOF

-----------------------------------------------------------------------------
(* C32 *)

\* the kinds the parser calls expect_peek with
ExpectedKinds == {IDENT, ASSIGN, RPAREN}

\* what the claim says of one call expect_peek(kind) made in the current state
ExpectPeekEffect(kind) ==
    LET e == expect_peek(Self, kind)
        p == e.parser
    IN  IF peek_token.token_type = kind
        THEN /\ e.ok
             /\ p.advances = advances + 1
             /\ p.cur_token = peek_token
             /\ p.tokens = Append(tokens, p.peek_token)
             /\ p.errors = errors
        ELSE /\ ~e.ok
             /\ p.cur_token = cur_token
             /\ p.peek_token = peek_token
             /\ p.advances = advances
             /\ p.tokens = tokens
             /\ Len(p.errors) = Len(errors) + 1
             /\ SubSeq(p.errors, 1, Len(errors)) = errors
             /\ Last(p.errors) = PeekError(kind, peek_token.token_type)

\* C32: expect_peek(kind): if the peeked token has the given kind, the parser
\* advances exactly one token, returns true and leaves the diagnostics list
\* unchanged; otherwise it returns false, leaves current and peek unchanged, and
\* appends exactly one diagnostic `expected next token to be <kind>, got <peek
\* kind> instead` at the end of the list, never removing or reordering earlier
\* diagnostics.  Checked of a call in any state, and of the call the grouped
\* expression makes after its inner expression.
C32_ExpectPeek ==
    /\ [](\A kind \in ExpectedKinds : ExpectPeekEffect(kind))
    /\ [][(pc = "return" /\ Top.via = "grouped" /\ ~IsNone(Top.left))
             => IF peek_token.token_type = RPAREN
                THEN /\ advances' = advances + 1
                     /\ cur_token' = peek_token
                     /\ errors' = errors
                ELSE /\ UNCHANGED <<cur_token, peek_token, advances, tokens>>
                     /\ errors' = Append(errors, PeekError(RPAREN, peek_token.token_type))]_vars

\* in `= (5;` the group's expect_peek has failed at the `;`, after the
\* diagnostic of the `=`, with the parser still on the 5
C32_Witness ==
    /\ Source = Str(<<"=", " ", "(", "5", ";">>)
    /\ errors = <<NoPrefixError(ASSIGN), PeekError(RPAREN, SEMICOLON)>>
    /\ cur_token.token_type = INT
    /\ peek_token.token_type = SEMICOLON
    /\ pc = "infix_loop"

====
